---------------------------- MODULE Spec2Model ----------------------------
(***************************************************************************)
(* Model of ironbar's menu module (src/src/modules/menu.rs) and of the     *)
(* common module configuration (src/src/config/common.rs).                 *)
(*                                                                         *)
(* Seven specifications share the module:                                  *)
(*   Spec         the menu aggregator: parse_config, then the batches the  *)
(*                popup's receive callback classifies and renders;         *)
(*   SpecShowIf   CommonConfig::install: the show_if polling channel and   *)
(*                the click, scroll, hover and tooltip handlers;           *)
(*   SpecTeardown SpecShowIf with the teardown of the owning module;       *)
(*   SpecTruncate the label truncation of the discovery task;              *)
(*   SpecDiscover one run of the discovery task over the desktop files;    *)
(*   SpecModule   the polling task, the discovery task and the receive     *)
(*                callbacks of one module, interleaved;                    *)
(*   SpecPopup    the popup's click and pointer-leave handlers over the    *)
(*                rendered widgets.                                        *)
(*                                                                         *)
(* A Rust String is modelled as the sequence of its characters' code       *)
(* points where its order matters (labels: String's Ord is lexicographic), *)
(* and as a TLA+ string where only equality is used (tags, icons, file     *)
(* names, scripts).  Option<T> is a sequence of length 0 (None) or 1       *)
(* (Some).  An IndexMap is the sequence of its [key, value] pairs.         *)
(***************************************************************************)
EXTENDS Integers, Sequences, FiniteSets, TLC

VARIABLES
    module,           \* MenuModule: the start, center and end configuration
    start_entries,    \* IndexMap<String, MenuEntry> of the start slot
    center_entries,   \* IndexMap<String, MenuEntry> of the center slot
    end_entries,      \* IndexMap<String, MenuEntry> of the end slot
    sections_by_cat,  \* IndexMap<String, Vec<String>>: tag -> section labels
    delivered,        \* every record received so far, in processing order
    batch,            \* the batch most recently received
    main_menu,        \* rendered buttons of main_menu: one label list per slot
    container,        \* the popup container's children after main_menu
    bar_position,     \* ModuleInfo::bar_position
    last_click,       \* what the last handler of the popup did
    common,           \* CommonConfig
    visible,          \* whether the module's container (EventBox) is visible
    rx_queue,         \* show_if results sent and not yet received
    step,             \* the handler that ran last
    oneshot,          \* scripts the last handler ran as oneshot
    tooltip_text,     \* Option: the container's tooltip text
    event,            \* the argument the last handler received
    script_exit,      \* how the show_if script exits: "fails", "succeeds", "varies"
    torn_down,        \* whether the module owning the bindings was torn down
    name,             \* the desktop entry's Name
    max_label_length, \* MenuModule::max_label_length
    overflow_checks,  \* whether the build checks integer overflow
    label,            \* Option: the label the discovery task computed
    trunc_pc,         \* position of the discovery task on this entry
    files,            \* the desktop files find_desktop_files returns
    update_queue,     \* batches the discovery task sent, not yet received
    discovery_pc      \* position of the discovery task

vars ==
    << module, start_entries, center_entries, end_entries, sections_by_cat,
       delivered, batch, main_menu, container, bar_position, last_click,
       common, visible, rx_queue, step, oneshot, tooltip_text, event, script_exit, torn_down, name,
       max_label_length, overflow_checks, label, trunc_pc, files,
       update_queue, discovery_pc >>

menu_vars ==
    << module, start_entries, center_entries, end_entries, sections_by_cat,
       delivered, batch, main_menu, container, bar_position, last_click >>

common_vars ==
    << common, visible, rx_queue, step, oneshot, tooltip_text, event,
       script_exit, torn_down >>

trunc_vars ==
    << name, max_label_length, overflow_checks, label, trunc_pc >>

discovery_vars ==
    << files, update_queue, discovery_pc >>

---------------------------------------------------------------------------
(* Bounds of the model.                                                    *)

\* Records received over the life of one popup.
MaxDelivered == 3

\* Records in one batch.
MaxBatch == 2

\* show_if results waiting in the channel (the glib channel is unbounded).
MaxQueue == 3

\* Grapheme clusters in a discovered name.
MaxName == 4

\* Largest max_label_length of a configuration.
MaxLength == 5

---------------------------------------------------------------------------
(* Strings and options.                                                    *)

None == << >>

Some(x) == << x >>

Min(a, b) == IF a < b THEN a ELSE b

\* <String as Ord>::lt: lexicographic order, a proper prefix is smaller.
LexLess(a, b) ==
    \E i \in 1..(Min(Len(a), Len(b)) + 1) :
        /\ \A j \in 1..(i - 1) : a[j] = b[j]
        /\ \/ (i = Len(a) + 1 /\ i <= Len(b))
           \/ (i <= Len(a) /\ i <= Len(b) /\ a[i] < b[i])

\* Section labels, as code points.
LblSettings == << 83, 101, 116, 116, 105, 110, 103, 115 >>
LblAccessories == << 65, 99, 99, 101, 115, 115, 111, 114, 105, 101, 115 >>
LblDevelopment == << 68, 101, 118, 101, 108, 111, 112, 109, 101, 110, 116 >>
LblEducation == << 69, 100, 117, 99, 97, 116, 105, 111, 110 >>
LblGames == << 71, 97, 109, 101, 115 >>
LblGraphics == << 71, 114, 97, 112, 104, 105, 99, 115 >>
LblMultimedia == << 77, 117, 108, 116, 105, 109, 101, 100, 105, 97 >>
LblNetwork == << 78, 101, 116, 119, 111, 114, 107 >>
LblOffice == << 79, 102, 102, 105, 99, 101 >>
LblScience == << 83, 99, 105, 101, 110, 99, 101 >>
LblSystem == << 83, 121, 115, 116, 101, 109 >>

\* const OTHER_LABEL: &str = "Other"
OTHER_LABEL == << 79, 116, 104, 101, 114 >>

---------------------------------------------------------------------------
(* Configuration: MenuConfig, and the menus the model is run on.           *)

\* MenuConfig::XdgEntry(XdgEntry { label, icon, categories })
XdgEntry(l, icon, categories) ==
    [type |-> "xdg_entry", label |-> l, icon |-> icon,
     categories |-> categories, on_click |-> ""]

\* MenuConfig::XdgOther
XdgOther ==
    [type |-> "xdg_other", label |-> << >>, icon |-> None,
     categories |-> << >>, on_click |-> ""]

\* MenuConfig::Custom(CustomEntry { icon, label, on_click })
CustomConfig(l, icon, on_click) ==
    [type |-> "custom", label |-> l, icon |-> icon,
     categories |-> << >>, on_click |-> on_click]

default_menu ==
    << XdgEntry(LblSettings, Some("preferences-system"),
                << "Settings", "Screensaver" >>),
       XdgEntry(LblAccessories, Some("accessories"),
                << "Accessibility", "Core", "Legacy", "Utility" >>),
       XdgEntry(LblDevelopment, Some("applications-development"),
                << "Development" >>),
       XdgEntry(LblEducation, Some("applications-education"),
                << "Education" >>),
       XdgEntry(LblGames, Some("applications-games"), << "Game" >>),
       XdgEntry(LblGraphics, Some("applications-graphics"),
                << "Graphics" >>),
       XdgEntry(LblMultimedia, Some("applications-multimedia"),
                << "Audio", "Video", "AudioVideo" >>),
       XdgEntry(LblNetwork, Some("applications-internet"), << "Network" >>),
       XdgEntry(LblOffice, Some("applications-office"), << "Office" >>),
       XdgEntry(LblScience, Some("applications-science"), << "Science" >>),
       XdgEntry(LblSystem, Some("applications-system"),
                << "Emulator", "System" >>),
       XdgOther >>

\* MenuModule: the fields the aggregator reads.
MenuModule(s, c, e) ==
    [start |-> s, center |-> c, end |-> e, height |-> None]

\* The module with a height configured.
WithHeight(m) == [m EXCEPT !.height = Some(400)]

\* impl Default for MenuModule
DefaultModule == MenuModule(<< >>, default_menu, << >>)

\* One tag claimed by a section of the start slot and one of the end slot.
FanOutModule ==
    MenuModule(<< XdgEntry(LblGraphics, None, << "Graphics" >>) >>,
               << XdgOther >>,
               << XdgEntry(LblOffice, None, << "Graphics", "Utility" >>) >>)

\* Two slots hold a section of the same label with different tags.
SharedLabelModule ==
    MenuModule(<< XdgEntry(LblGames, None, << "Graphics" >>) >>,
               << XdgOther >>,
               << XdgEntry(LblGames, None, << "Utility" >>) >>)

\* No catch-all entry in the center slot.
NoOtherModule ==
    MenuModule(<< >>,
               << XdgEntry(LblGraphics, None, << "Graphics" >>) >>,
               << XdgOther >>)

\* A custom entry and a section share a label, in one slot and across slots.
CustomModule ==
    MenuModule(<< CustomConfig(LblGraphics, None, "xdg-open .") >>,
               << XdgEntry(LblGraphics, None, << "Graphics" >>),
                  XdgOther,
                  CustomConfig(OTHER_LABEL, Some("system-run"), "poweroff") >>,
               << >>)

\* Two entries of one slot share a label.
DuplicateModule ==
    MenuModule(<< >>,
               << XdgEntry(LblGames, Some("first"), << "Graphics" >>),
                  XdgOther,
                  XdgEntry(LblGames, Some("second"), << "Utility" >>) >>,
               << >>)

Modules ==
    { DefaultModule, FanOutModule, SharedLabelModule, NoOtherModule,
      CustomModule, DuplicateModule }

Slots == { "start", "center", "end" }

---------------------------------------------------------------------------
(* Application records.                                                    *)

\* MenuApplication { label, file_name, categories }
MenuApplication(l, file_name, categories) ==
    [label |-> l, file_name |-> file_name, categories |-> categories]

\* "Foo" and "GIMP"
AppLabels == { << 70, 111, 111 >>, << 71, 73, 77, 80 >> }

FileNames == { "foo.desktop", "gimp.desktop" }

\* A tag the menus claim, and one no menu claims.
CategoryLists == { << "Graphics" >>, << "Unknown" >> }

\* The records of the batches: each label under each file name, matched and
\* unmatched; a third label, "Files"; and a record with an unclaimed tag
\* before a claimed one.
Applications ==
    { MenuApplication(l, f, c) :
        l \in AppLabels, f \in FileNames, c \in CategoryLists }
    \cup { MenuApplication(<< 70, 105, 108, 101, 115 >>, "files.desktop",
                           << "Graphics" >>),
           MenuApplication(<< 71, 73, 77, 80 >>, "gimp.desktop",
                           << "Unknown", "Graphics" >>) }

RECURSIVE SeqsUpTo(_, _)
\* The sequences over S of length 1..n.
SeqsUpTo(S, n) ==
    IF n = 0 THEN { }
    ELSE LET shorter == SeqsUpTo(S, n - 1)
         IN  { << x >> : x \in S }
               \cup shorter
               \cup { Append(s, x) : s \in shorter, x \in S }

---------------------------------------------------------------------------
(* IndexMap.                                                               *)

Pair(k, v) == [key |-> k, value |-> v]

\* IndexMap::get_index_of: the position of the key, 0 when it is absent.
IndexOf(map, k) ==
    IF \E i \in 1..Len(map) : map[i].key = k
    THEN CHOOSE i \in 1..Len(map) : map[i].key = k
    ELSE 0

InsertAt(map, i, pair) ==
    SubSeq(map, 1, i - 1) \o << pair >> \o SubSeq(map, i, Len(map))

\* insert_sorted keeping the value of a key it already holds.
InsertKeepFirst(map, k, v) ==
    LET i == IndexOf(map, k)
        smaller == { j \in 1..Len(map) : LexLess(map[j].key, k) }
    IN  IF i # 0 THEN map
        ELSE InsertAt(map, Cardinality(smaller) + 1, Pair(k, v))

\* insert_sorted done as IndexMap::insert would: replace the value of a
\* present key, else push at the end, without the search for the position.
InsertLast(map, k, v) ==
    LET i == IndexOf(map, k)
    IN  IF i # 0 THEN [map EXCEPT ![i].value = v]
        ELSE Append(map, Pair(k, v))

\* IndexMap::insert_sorted: binary_search_keys, then replace the value of
\* the key found, or insert the pair at the position the search gives: with
\* the keys sorted, after the keys smaller than k.
InsertSorted(map, k, v) ==
    LET i == IndexOf(map, k)
        smaller == { j \in 1..Len(map) : LexLess(map[j].key, k) }
    IN  IF i # 0 THEN [map EXCEPT ![i].value = v]
        ELSE InsertAt(map, Cardinality(smaller) + 1, Pair(k, v))

Keys(map) == [i \in 1..Len(map) |-> map[i].key]

Values(map) == [i \in 1..Len(map) |-> map[i].value]

---------------------------------------------------------------------------
(* parse_config.                                                           *)

\* MenuEntry::Xdg(XdgSection { label, icon, applications: IndexMap::new() })
XdgSection(l, icon) ==
    [kind |-> "Xdg", label |-> l, icon |-> icon, applications |-> << >>,
     on_click |-> ""]

\* MenuEntry::Custom(CustomEntry { icon, label, on_click })
CustomEntry(l, icon, on_click) ==
    [kind |-> "Custom", label |-> l, icon |-> icon, applications |-> << >>,
     on_click |-> on_click]

\* One category of an xdg entry: push the label on the tag's route list, or
\* insert a new list.
RegisterCategory(by_cat, cat, l) ==
    LET i == IndexOf(by_cat, cat)
    IN  IF i # 0 THEN [by_cat EXCEPT ![i].value = Append(@, l)]
        ELSE Append(by_cat, Pair(cat, << l >>))

RECURSIVE RegisterCategories(_, _, _, _)
\* entry.categories.iter().for_each(..), from the i-th category on.
RegisterCategories(by_cat, categories, i, l) ==
    IF i > Len(categories) THEN by_cat
    ELSE RegisterCategories(RegisterCategory(by_cat, categories[i], l),
                            categories, i + 1, l)

\* The match arm parse_config runs on one entry of the configuration.
ParseEntry(entries, by_cat, entry_config) ==
    CASE entry_config.type = "xdg_entry" ->
           << InsertSorted(entries, entry_config.label,
                           XdgSection(entry_config.label, entry_config.icon)),
              RegisterCategories(by_cat, entry_config.categories, 1,
                                 entry_config.label) >>
      [] entry_config.type = "xdg_other" ->
           << InsertSorted(entries, OTHER_LABEL,
                           XdgSection(OTHER_LABEL, Some("applications-other"))),
              by_cat >>
      [] entry_config.type = "custom" ->
           << InsertSorted(entries, entry_config.label,
                           CustomEntry(entry_config.label, entry_config.icon,
                                       entry_config.on_click)),
              by_cat >>

RECURSIVE ParseFrom(_, _, _, _)
\* section_config.iter().for_each(..), from the i-th entry on.
ParseFrom(section_config, i, entries, by_cat) ==
    IF i > Len(section_config) THEN << entries, by_cat >>
    ELSE LET r == ParseEntry(entries, by_cat, section_config[i])
         IN  ParseFrom(section_config, i + 1, r[1], r[2])

\* parse_config(section_config, sections_by_cat) -> (entries, sections_by_cat)
parse_config(section_config, by_cat) ==
    ParseFrom(section_config, 1, << >>, by_cat)

\* The three parse_config calls of into_popup: the slots and the index.
ParseModule(m) ==
    LET s == parse_config(m.start, << >>)
        c == parse_config(m.center, s[2])
        e == parse_config(m.end, c[2])
    IN  [start |-> s[1], center |-> c[1], end |-> e[1], by_cat |-> e[2]]

---------------------------------------------------------------------------
(* The receive callback of into_popup: classification.                     *)

\* The insertion without the test for MenuEntry::Xdg: any entry found
\* under the name receives the application.
InsertAnyKind(entries, section_name, application) ==
    LET i == IndexOf(entries, section_name)
    IN  IF i # 0
        THEN [entries EXCEPT ![i].value.applications =
                  InsertSorted(@, application.label, application)]
        ELSE entries

\* if let Some(MenuEntry::Xdg(existing)) = entries.get_mut(section_name)
\*     { existing.applications.insert_sorted(label, application) }
InsertApplication(entries, section_name, application) ==
    LET i == IndexOf(entries, section_name)
    IN  IF i # 0 /\ entries[i].value.kind = "Xdg"
        THEN [entries EXCEPT ![i].value.applications =
                  InsertSorted(@, application.label, application)]
        ELSE entries

\* The body of the loop over section_names: the three slots in turn.
InsertInSlots(slots, section_name, application) ==
    [start |-> InsertApplication(slots.start, section_name, application),
     center |-> InsertApplication(slots.center, section_name, application),
     end |-> InsertApplication(slots.end, section_name, application)]

RECURSIVE InsertInSections(_, _, _, _)
\* for section_name in section_names.iter(), from the i-th name on.
InsertInSections(slots, section_names, i, application) ==
    IF i > Len(section_names) THEN slots
    ELSE InsertInSections(
             InsertInSlots(slots, section_names[i], application),
             section_names, i + 1, application)

RECURSIVE ClassifyFrom(_, _, _, _, _)
\* for category in application.categories.iter(), from the i-th tag on;
\* gives the slots and the inserted flag.
ClassifyFrom(slots, by_cat, application, i, inserted) ==
    IF i > Len(application.categories)
    THEN [slots |-> slots, inserted |-> inserted]
    ELSE LET k == IndexOf(by_cat, application.categories[i])
         IN  IF k # 0
             THEN ClassifyFrom(
                      InsertInSections(slots, by_cat[k].value, 1, application),
                      by_cat, application, i + 1, TRUE)
             ELSE ClassifyFrom(slots, by_cat, application, i + 1, inserted)

\* if !inserted { center_entries.get_mut(OTHER_LABEL) .. insert_sorted }
InsertOther(slots, application) ==
    [slots EXCEPT !.center = InsertApplication(@, OTHER_LABEL, application)]

\* The body of the loop over the batch: one application.
Classify(slots, by_cat, application) ==
    LET r == ClassifyFrom(slots, by_cat, application, 1, FALSE)
    IN  IF ~r.inserted THEN InsertOther(r.slots, application) ELSE r.slots

RECURSIVE ClassifyAll(_, _, _, _)
\* for application in applications.iter(), from the i-th record on.
ClassifyAll(slots, by_cat, applications, i) ==
    IF i > Len(applications) THEN slots
    ELSE ClassifyAll(Classify(slots, by_cat, applications[i]), by_cat,
                     applications, i + 1)

\* The buttons the render loops add to main_menu: one per entry of the slot,
\* in the order of entries.values(), under start_section, center_section
\* and end_section.
Render(slots) ==
    << [i \in 1..Len(slots.start) |-> slots.start[i].value.label],
       [i \in 1..Len(slots.center) |-> slots.center[i].value.label],
       [i \in 1..Len(slots.end) |-> slots.end[i].value.label] >>

\* What the last handler of the popup did: which handler ran, on which
\* child of the container, the file name it passed to gtk-launch, whether
\* that process could be spawned, the ClosePopup events it sent, and the
\* script it ran.
Clicked(handler, target, launched, spawn_ok, close_popup, script) ==
    [handler |-> handler, target |-> target, launched |-> launched,
     spawn_ok |-> spawn_ok, close_popup |-> close_popup, script |-> script]

\* No handler of the popup has run.
NoClick == Clicked("none", 0, None, FALSE, 0, None)

\* make_entry on an Xdg entry and add_entries on its sub_menu: the box
\* holds one button per application, in the order of applications.values(),
\* whose click handler launches the application's file_name.  Without a
\* height the box itself becomes a child of the container, as hidden as
\* gtk created it; with a height the box is shown (sub_menu.show()) and
\* put into a scrolled window, which becomes the child and is not shown.
\* visible is the flag of the container's child, box_visible the flag of
\* the sub_menu box: without a height the two are one widget.
SubMenu(slot, entry) ==
    LET applications == Values(entry.applications)
    IN  [slot |-> slot, label |-> entry.label,
         buttons |-> [i \in 1..Len(applications) |->
                         [label |-> applications[i].label,
                          file_name |-> applications[i].file_name]],
         visible |-> FALSE,
         box_visible |-> module.height # None]

IsXdg(entry) == entry.kind = "Xdg"

\* add_entries over one slot: container.add(&sub_menu) (or the scrolled
\* window that wraps it) for every entry that has a sub_menu.
SubMenusOf(slot, entries) ==
    LET sections == SelectSeq(Values(entries), IsXdg)
    IN  [i \in 1..Len(sections) |-> SubMenu(slot, sections[i])]

\* The children the three render loops add to the popup container, which
\* nothing removes: main_menu.foreach(remove) empties main_menu only.
SubMenus(slots) ==
    SubMenusOf("start", slots.start) \o SubMenusOf("center", slots.center)
        \o SubMenusOf("end", slots.end)

CurrentSlots ==
    [start |-> start_entries, center |-> center_entries, end |-> end_entries]

\* The body of the receive callback: classify the batch, then rebuild the
\* main menu.
Receive(applications) ==
    /\ Len(delivered) + Len(applications) <= MaxDelivered
    /\ LET slots == ClassifyAll(CurrentSlots, sections_by_cat, applications, 1)
       IN  /\ start_entries' = slots.start
           /\ center_entries' = slots.center
           /\ end_entries' = slots.end
           /\ main_menu' = Render(slots)
           /\ container' = container \o SubMenus(slots)
    /\ delivered' = delivered \o applications
    /\ batch' = applications
    /\ last_click' = Clicked("batch", 0, None, FALSE, 0, None)
    /\ UNCHANGED << module, sections_by_cat, bar_position >>

\* glib_recv!(rx, applications => { .. }) on a batch.
ReceiveBatch(applications) ==
    /\ Receive(applications)
    /\ UNCHANGED << common_vars, trunc_vars, discovery_vars >>

---------------------------------------------------------------------------
(* The click handlers of the popup (make_entry, add_entries) and its       *)
(* leave-notify handler (into_popup).                                      *)

\* hide() on a child of the container.
Hide(child) ==
    [child EXCEPT !.visible = FALSE,
                  !.box_visible = IF module.height = None THEN FALSE ELSE @]

\* show() on a child of the container.
Show(child) ==
    [child EXCEPT !.visible = TRUE,
                  !.box_visible = IF module.height = None THEN TRUE ELSE @]

\* The application click without its sub_menu.hide().
KeepBox(child) == child

\* sub_menu.hide() in the click handler of an application button: sub_menu
\* is the box make_entry built.
HideBox(child) ==
    [child EXCEPT !.box_visible = FALSE,
                  !.visible = IF module.height = None THEN FALSE ELSE @]

\* The section click without the loop that hides the visible children.
HideNone(children) == children

\* container1.children().iter().skip(1).for_each(|sub_menu| {
\*     if sub_menu.get_visible() { sub_menu.hide(); } })
HideVisible(children) ==
    [j \in 1..Len(children) |->
        IF children[j].visible THEN Hide(children[j]) ELSE children[j]]

\* container.children().iter().skip(1).for_each(|sub_menu| sub_menu.hide())
HideAll(children) == [j \in 1..Len(children) |-> Hide(children[j])]

\* The children the last render added: the sub-menus of the buttons
\* main_menu holds now.
CurrentChildren ==
    IF main_menu = << >> THEN { }
    ELSE (Len(container) - Len(SubMenus(CurrentSlots)) + 1)..Len(container)

\* The child is on screen with its buttons: the child and the box in it
\* are both visible.
Displayed(child) == child.visible /\ child.box_visible

\* What the popup's handlers leave alone.
popup_frame ==
    << module, start_entries, center_entries, end_entries, sections_by_cat,
       delivered, batch, main_menu, bar_position >>

\* button.connect_clicked of a section's button (add_entries, both
\* branches): hide the visible children, then sub_menu1.show(), sub_menu1
\* being the child add_entries put into the container.
SectionClick(j) ==
    /\ j \in CurrentChildren
    /\ container' = [HideVisible(container) EXCEPT ![j] = Show(@)]
    /\ last_click' = Clicked("section", j, None, FALSE, 0, None)
    /\ UNCHANGED popup_frame
    /\ UNCHANGED << common_vars, trunc_vars, discovery_vars >>

\* button.connect_clicked of a custom entry's button: hide every child,
\* then spawn the entry's on_click as a script.
CustomClick(slot, i) ==
    /\ main_menu # << >>
    /\ i \in 1..Len(CurrentSlots[slot])
    /\ CurrentSlots[slot][i].value.kind = "Custom"
    /\ container' = HideAll(container)
    /\ last_click' = Clicked("custom", 0, None, FALSE, 0,
                             Some(CurrentSlots[slot][i].value.on_click))
    /\ UNCHANGED popup_frame
    /\ UNCHANGED << common_vars, trunc_vars, discovery_vars >>

\* button.connect_clicked of an application's button (make_entry), which
\* the user can reach while its sub-menu is on screen: spawn gtk-launch
\* with the file name and drop the result, hide the box, send ClosePopup.
AppClick(j, b, spawn_ok) ==
    /\ j \in 1..Len(container)
    /\ Displayed(container[j])
    /\ b \in 1..Len(container[j].buttons)
    /\ container' = [container EXCEPT ![j] = HideBox(@)]
    /\ last_click' = Clicked("app", j, Some(container[j].buttons[b].file_name),
                             spawn_ok, 1, None)
    /\ UNCHANGED popup_frame
    /\ UNCHANGED << common_vars, trunc_vars, discovery_vars >>

\* const THRESHOLD: f64 = 3.0
THRESHOLD == 3

\* enum BarPosition
BarPositions == { "Top", "Bottom", "Left", "Right" }

\* win.size() of the popup window.
WindowSize == << 10, 8 >>

\* ev.position(): at the left edge or in the middle, in the middle or at the
\* bottom edge.
PointerXs == { 0, 5 }

PointerYs == { 4, 7 }

\* let hide = match pos { .. }
LeaveHides(pos, x, y, w, h) ==
    CASE pos = "Top" -> x < THRESHOLD \/ y > h - THRESHOLD \/ x > w - THRESHOLD
      [] pos = "Bottom" -> x < THRESHOLD \/ y < THRESHOLD \/ x > w - THRESHOLD
      [] pos = "Left" -> y < THRESHOLD \/ x > w - THRESHOLD \/ y > h - THRESHOLD
      [] pos = "Right" -> y < THRESHOLD \/ x < THRESHOLD \/ y > h - THRESHOLD

\* connect_leave_notify_event of the popup window.
PointerLeave(x, y) ==
    /\ container' =
           IF LeaveHides(bar_position, x, y, WindowSize[1], WindowSize[2])
           THEN HideAll(container)
           ELSE container
    /\ last_click' = Clicked("leave", 0, None, FALSE, 0, None)
    /\ UNCHANGED popup_frame
    /\ UNCHANGED << common_vars, trunc_vars, discovery_vars >>

---------------------------------------------------------------------------
(* The label of a discovered application (spawn_controller).               *)

\* fn default_length() -> usize
default_length == 25

\* The ellipsis "…" appended to a shortened name, as its code point.
ELLIPSIS == 8230

\* usize is 64 bits wide and its arithmetic is modulo 2^64.  TLC's integers
\* are narrower, so a usize is held as its UsizeLimbs limbs of 16 bits,
\* least significant first: the value is the sum of u[i] * LimbBase^(i-1).
LimbBase == 65536

UsizeLimbs == 4

\* The usize of a length or a configured value below 2^31.
Usize(n) ==
    [i \in 1..UsizeLimbs |->
        IF i = 1 THEN n % LimbBase
        ELSE IF i = 2 THEN n \div LimbBase
        ELSE 0]

\* usize::MAX, 2^64 - 1.
USIZE_MAX == [i \in 1..UsizeLimbs |-> LimbBase - 1]

\* a < b on usize.
UsizeLess(a, b) ==
    \E i \in 1..UsizeLimbs :
        /\ a[i] < b[i]
        /\ \A j \in (i + 1)..UsizeLimbs : a[j] = b[j]

\* max_label_length - 1 in a build without overflow checks: the
\* subtraction modulo 2^64, borrowing through the limbs that are zero.
WrappingDecrement(u) ==
    LET nonzero == { i \in 1..UsizeLimbs : u[i] > 0 }
    IN  IF nonzero = { }
        THEN USIZE_MAX
        ELSE LET k == CHOOSE i \in nonzero : \A j \in nonzero : i <= j
             IN  [i \in 1..UsizeLimbs |->
                     IF i < k THEN LimbBase - 1
                     ELSE IF i = k THEN u[i] - 1
                     ELSE u[i]]

\* iter.take(n).collect(), n a usize: the whole sequence unless n is less
\* than its length.
Take(seq, u) ==
    IF UsizeLess(u, Usize(Len(seq)))
    THEN SubSeq(seq, 1, u[1] + u[2] * LimbBase)
    ELSE seq

\* The name of lines 468-476 where the subtraction does not panic.
TruncatedName(n, max) ==
    IF Len(n) > max
    THEN Take(n, WrappingDecrement(Usize(max))) \o << ELLIPSIS >>
    ELSE n

\* Lines 468-476 on one desktop entry: the overflowing subtraction panics in
\* a build with overflow checks (the task ends, no record is built) and
\* wraps in a build without.
TruncateLabel ==
    /\ trunc_pc = "name"
    /\ IF Len(name) > max_label_length /\ max_label_length = 0
          /\ overflow_checks
       THEN /\ trunc_pc' = "panicked"
            /\ label' = None
       ELSE /\ trunc_pc' = "done"
            /\ label' = Some(TruncatedName(name, max_label_length))
    /\ UNCHANGED << name, max_label_length, overflow_checks >>
    /\ UNCHANGED << menu_vars, common_vars, discovery_vars >>

\* The grapheme clusters of the names: two letters.
Graphemes == { 97, 98 }

RECURSIVE SeqsWithin(_, _)
\* The sequences over S of length 0..n.
SeqsWithin(S, n) ==
    IF n = 0 THEN { << >> }
    ELSE LET shorter == SeqsWithin(S, n - 1)
         IN  shorter \cup { Append(q, x) : q \in shorter, x \in S }

\* A desktop entry with a Name, before its label is computed.
TruncInit ==
    /\ name \in SeqsWithin(Graphemes, MaxName)
    /\ max_label_length \in 0..MaxLength
    /\ overflow_checks \in BOOLEAN
    /\ label = None
    /\ trunc_pc = "name"

---------------------------------------------------------------------------
(* The discovery task (spawn_controller).                                  *)

\* Desktop files find_desktop_files returns in one run.
MaxFiles == 2

\* What the task reads of one desktop file: whether Entry::parse_file
\* succeeds, and the attributes Type, Categories, Name and NoDisplay of its
\* "Desktop Entry" section, each an Option.  The value of Categories is the
\* sequence of its pieces, ";" being the separator character.
DesktopEntry(parses, type, categories, n, no_display) ==
    [file_name |-> "", parses |-> parses, type |-> type,
     categories |-> categories, name |-> n, no_display |-> no_display]

\* An application; one without Categories and with NoDisplay=false; a file
\* that does not parse; a Link; an entry without Type; one without Name;
\* and one marked NoDisplay=true.
DesktopEntries ==
    { DesktopEntry(TRUE, Some("Application"),
                   Some(<< "Graphics", ";", "Utility", ";" >>),
                   Some(<< 70, 111, 111 >>), None),
      DesktopEntry(TRUE, Some("Application"), None,
                   Some(<< 71, 73, 77, 80 >>), Some("false")),
      DesktopEntry(FALSE, None, None, None, None),
      DesktopEntry(TRUE, Some("Link"), Some(<< "Graphics" >>),
                   Some(<< 70, 111, 111 >>), None),
      DesktopEntry(TRUE, None, Some(<< "Graphics", ";" >>),
                   Some(<< 70, 111, 111 >>), None),
      DesktopEntry(TRUE, Some("Application"), Some(<< "Graphics", ";" >>),
                   None, None),
      DesktopEntry(TRUE, Some("Application"), Some(<< ";" >>),
                   Some(<< 70, 111, 111 >>), Some("true")) }

\* file_path.file_name() of the i-th discovered file.
DiscoveredNames ==
    << "foo.desktop", "gimp.desktop", "files.desktop", "misc.desktop" >>

\* The files of one run: the entries, each under its file name.
Discovered(entries) ==
    [i \in 1..Len(entries) |->
        [entries[i] EXCEPT !.file_name = DiscoveredNames[i]]]

\* Option::unwrap_or
unwrap_or(option, default) == IF option = None THEN default ELSE option[1]

RECURSIVE trim_end_matches(_)
\* raw_cats.trim_end_matches(";")
trim_end_matches(raw) ==
    IF raw # << >> /\ raw[Len(raw)] = ";"
    THEN trim_end_matches(SubSeq(raw, 1, Len(raw) - 1))
    ELSE raw

RECURSIVE split(_, _, _)
\* .split(";") from the i-th character on, piece being the piece under way.
split(raw, i, piece) ==
    IF i > Len(raw) THEN << piece >>
    ELSE IF raw[i] = ";" THEN << piece >> \o split(raw, i + 1, "")
    ELSE split(raw, i + 1, piece \o raw[i])

\* Lines 461-466: the categories of a desktop entry.
CategoriesOf(desktop) ==
    LET raw_cats == unwrap_or(desktop.categories, << "Misc" >>)
    IN  split(trim_end_matches(raw_cats), 1, "")

\* The closure of filter_map reaches the subtraction of line 473 on this
\* file, and the subtraction overflows.
Overflows(desktop) ==
    /\ desktop.parses
    /\ unwrap_or(desktop.type, "N/A") = "Application"
    /\ desktop.name # None
    /\ Len(desktop.name[1]) > max_label_length
    /\ max_label_length = 0

\* The closure of filter_map on one file, where it does not panic: None or
\* Some(MenuApplication).
DiscoverFile(desktop) ==
    IF ~desktop.parses THEN None
    ELSE IF unwrap_or(desktop.type, "N/A") # "Application" THEN None
    ELSE IF desktop.name = None THEN None
    ELSE IF desktop.no_display = Some("true") THEN None
    ELSE Some(MenuApplication(
                  TruncatedName(desktop.name[1], max_label_length),
                  desktop.file_name, CategoriesOf(desktop)))

RECURSIVE DiscoverFrom(_, _)
\* files.iter().filter_map(..).collect() from the i-th file on.
DiscoverFrom(paths, i) ==
    IF i > Len(paths) THEN << >>
    ELSE DiscoverFile(paths[i]) \o DiscoverFrom(paths, i + 1)

\* The task spawn_controller spawns: it builds the records of all files and
\* sends them as one Update.  In a build with overflow checks the
\* overflowing subtraction panics: the task ends and nothing is sent.
Discover ==
    /\ discovery_pc = "spawned"
    /\ IF overflow_checks /\ \E i \in 1..Len(files) : Overflows(files[i])
       THEN /\ discovery_pc' = "panicked"
            /\ update_queue' = update_queue
       ELSE /\ discovery_pc' = "sent"
            /\ update_queue' = Append(update_queue, DiscoverFrom(files, 1))
    /\ UNCHANGED << files, trunc_vars >>
    /\ UNCHANGED << menu_vars, common_vars >>

\* spawn_controller has spawned the task on the files of the system.
DiscoveryInit ==
    /\ \E entries \in SeqsWithin(DesktopEntries, MaxFiles) :
           files = Discovered(entries)
    /\ update_queue = << >>
    /\ discovery_pc = "spawned"

---------------------------------------------------------------------------
(* CommonConfig::install.                                                  *)

\* CommonConfig with every option absent.
NoCommon ==
    [show_if |-> None, on_click_left |-> None, on_click_right |-> None,
     on_click_middle |-> None, on_scroll_up |-> None,
     on_scroll_down |-> None, on_mouse_enter |-> None,
     on_mouse_exit |-> None, tooltip |-> None]

\* Every option set.
AllCommon ==
    [show_if |-> Some("show_if.sh"), on_click_left |-> Some("left.sh"),
     on_click_right |-> Some("right.sh"),
     on_click_middle |-> Some("middle.sh"),
     on_scroll_up |-> Some("up.sh"), on_scroll_down |-> Some("down.sh"),
     on_mouse_enter |-> Some("enter.sh"), on_mouse_exit |-> Some("exit.sh"),
     tooltip |-> Some("tip")]

\* show_if alone.
ShowIfCommon == [NoCommon EXCEPT !.show_if = Some("show_if.sh")]

\* Some handlers, no show_if.
HandlersCommon ==
    [NoCommon EXCEPT !.on_click_left = Some("left.sh"),
                     !.on_scroll_down = Some("down.sh"),
                     !.on_mouse_exit = Some("exit.sh"),
                     !.tooltip = Some("tip")]

CommonConfigs == { NoCommon, AllCommon, ShowIfCommon, HandlersCommon }

\* The polled script's behaviour: every run exits non-zero, every run exits
\* zero, or its exit status varies from run to run.
ScriptExits == { "fails", "succeeds", "varies" }

\* event.button(): left, middle, right and two more.
Buttons == 1..5

\* gdk::ScrollDirection
ScrollDirections == { "Up", "Down", "Left", "Right", "Smooth" }

\* The texts DynamicString hands to the tooltip callback.
TooltipStrings == { "tip", "tip!" }

\* The container (EventBox) the module is given before install: gtk creates
\* widgets hidden, and install's own show_all() in the branch without a
\* script is what shows the container.
VisibleAtCreation == FALSE

\* install_show_if without the show_all() of its first branch.
NeverShown(show_if) == VisibleAtCreation

\* install_show_if: without a script, container.show_all(); with one, the
\* polling task is spawned, the callback attached, and the container is left
\* as it was created.
install_show_if(show_if) ==
    IF show_if = None THEN TRUE ELSE VisibleAtCreation

\* The state install leaves: the handlers are connected, no script has run.
CommonInit ==
    /\ common \in CommonConfigs
    /\ visible = install_show_if(common.show_if)
    /\ rx_queue = << >>
    /\ step = "install"
    /\ oneshot = << >>
    /\ tooltip_text = None
    /\ event = None
    /\ script_exit \in ScriptExits
    /\ torn_down = FALSE

\* script.run(None, |_, success| send!(tx, success)): one run of the polled
\* script sends its outcome.
ShowIfSend(success) ==
    /\ common.show_if # None
    /\ script_exit = "fails" => ~success
    /\ script_exit = "succeeds" => success
    /\ Len(rx_queue) < MaxQueue
    /\ rx_queue' = Append(rx_queue, success)
    /\ step' = "poll"
    /\ event' = success
    /\ oneshot' = << >>
    /\ UNCHANGED << common, visible, tooltip_text, script_exit, torn_down >>
    /\ UNCHANGED << menu_vars, trunc_vars, discovery_vars >>

\* The attach callback without its else branch: a result false hides
\* nothing.
ShowOnly(success) == IF success THEN TRUE ELSE visible

\* The attach callback with its branches exchanged.
Inverted(success) == IF success THEN FALSE ELSE TRUE

\* if success { container.show_all() } else { container.hide() }
ShowIfResult(success) == IF success THEN TRUE ELSE FALSE

\* The attach callback handed the newest result instead of the oldest.
ShowIfRecvNewest ==
    /\ rx_queue # << >>
    /\ visible' = ShowIfResult(rx_queue[Len(rx_queue)])
    /\ rx_queue' = SubSeq(rx_queue, 1, Len(rx_queue) - 1)
    /\ step' = "apply"
    /\ event' = rx_queue[Len(rx_queue)]
    /\ oneshot' = << >>
    /\ UNCHANGED << common, tooltip_text, script_exit, torn_down >>
    /\ UNCHANGED << menu_vars, trunc_vars, discovery_vars >>

\* rx.attach(None, move |success| ..): the main context hands the oldest
\* result to the callback.
ShowIfRecv ==
    /\ rx_queue # << >>
    /\ visible' = ShowIfResult(Head(rx_queue))
    /\ rx_queue' = Tail(rx_queue)
    /\ step' = "apply"
    /\ event' = Head(rx_queue)
    /\ oneshot' = << >>
    /\ UNCHANGED << common, tooltip_text, script_exit, torn_down >>
    /\ UNCHANGED << menu_vars, trunc_vars, discovery_vars >>

\* The match of the press handler with the scripts of buttons 2 and 3
\* exchanged.
SwappedClick(button) ==
    CASE button = 1 -> common.on_click_left
      [] button = 2 -> common.on_click_right
      [] button = 3 -> common.on_click_middle
      [] OTHER -> None

\* match event.button() { 1 => left, 2 => middle, 3 => right, _ => None }
ClickScript(button) ==
    CASE button = 1 -> common.on_click_left
      [] button = 2 -> common.on_click_middle
      [] button = 3 -> common.on_click_right
      [] OTHER -> None

\* connect_button_press_event
ButtonPress(button) ==
    /\ step' = "press"
    /\ event' = button
    /\ oneshot' = ClickScript(button)
    /\ UNCHANGED << common, visible, rx_queue, tooltip_text, script_exit,
                    torn_down >>
    /\ UNCHANGED << menu_vars, trunc_vars, discovery_vars >>

\* match event.direction() { Up => up, Down => down, _ => None }
ScrollScript(direction) ==
    CASE direction = "Up" -> common.on_scroll_up
      [] direction = "Down" -> common.on_scroll_down
      [] OTHER -> None

\* connect_scroll_event
ScrollEvent(direction) ==
    /\ step' = "scroll"
    /\ event' = direction
    /\ oneshot' = ScrollScript(direction)
    /\ UNCHANGED << common, visible, rx_queue, tooltip_text, script_exit,
                    torn_down >>
    /\ UNCHANGED << menu_vars, trunc_vars, discovery_vars >>

\* install_oneshot!(self.on_mouse_enter, connect_enter_notify_event)
MouseEnter ==
    /\ common.on_mouse_enter # None
    /\ step' = "enter"
    /\ event' = None
    /\ oneshot' = common.on_mouse_enter
    /\ UNCHANGED << common, visible, rx_queue, tooltip_text, script_exit,
                    torn_down >>
    /\ UNCHANGED << menu_vars, trunc_vars, discovery_vars >>

\* install_oneshot!(self.on_mouse_exit, connect_leave_notify_event)
MouseExit ==
    /\ common.on_mouse_exit # None
    /\ step' = "exit"
    /\ event' = None
    /\ oneshot' = common.on_mouse_exit
    /\ UNCHANGED << common, visible, rx_queue, tooltip_text, script_exit,
                    torn_down >>
    /\ UNCHANGED << menu_vars, trunc_vars, discovery_vars >>

\* DynamicString::new(&tooltip, move |string| container.set_tooltip_text(..))
TooltipUpdate(string) ==
    /\ common.tooltip # None
    /\ tooltip_text' = Some(string)
    /\ step' = "tooltip"
    /\ event' = string
    /\ oneshot' = << >>
    /\ UNCHANGED << common, visible, rx_queue, script_exit, torn_down >>
    /\ UNCHANGED << menu_vars, trunc_vars, discovery_vars >>

---------------------------------------------------------------------------
(* The menu aggregator.                                                    *)

\* The bindings of a module without common options: the container is shown.
CommonIdle ==
    /\ common = NoCommon
    /\ visible = TRUE
    /\ rx_queue = << >>
    /\ step = "install"
    /\ oneshot = << >>
    /\ tooltip_text = None
    /\ event = None
    /\ script_exit = "varies"
    /\ torn_down = FALSE

\* No desktop entry under way.
TruncIdle ==
    /\ name = << >>
    /\ max_label_length = default_length
    /\ overflow_checks = FALSE
    /\ label = None
    /\ trunc_pc = "idle"

\* No discovery task.
DiscoveryIdle ==
    /\ files = << >>
    /\ update_queue = << >>
    /\ discovery_pc = "idle"

\* into_popup up to the registration of the receive callback: the slots and
\* the index are parsed, main_menu is an empty box.
MenuInit ==
    /\ module \in Modules
    /\ LET parsed == ParseModule(module)
       IN  /\ start_entries = parsed.start
           /\ center_entries = parsed.center
           /\ end_entries = parsed.end
           /\ sections_by_cat = parsed.by_cat
    /\ delivered = << >>
    /\ batch = << >>
    /\ main_menu = << >>
    /\ container = << >>
    /\ bar_position = "Top"
    /\ last_click = NoClick

Init ==
    /\ MenuInit
    /\ CommonIdle
    /\ TruncIdle
    /\ DiscoveryIdle

Next ==
    \E applications \in SeqsUpTo(Applications, MaxBatch) :
        ReceiveBatch(applications)

Spec == Init /\ [][Next]_vars

\* Batches rendered over the life of the popup in its runs.
MaxRenders == 2

\* The menus of the popup's runs: a section next to two custom entries, and
\* three sections, each without and with a height.
PopupModules ==
    { CustomModule, WithHeight(CustomModule), FanOutModule,
      WithHeight(FanOutModule) }

\* The records of the popup's batches: one that matches and one that does
\* not.
PopupApplications ==
    { MenuApplication(<< 70, 111, 111 >>, "foo.desktop", << "Graphics" >>),
      MenuApplication(<< 71, 73, 77, 80 >>, "gimp.desktop", << "Unknown" >>) }

\* into_popup up to the registration of the handlers, at any bar position.
PopupInit ==
    /\ module \in PopupModules
    /\ LET parsed == ParseModule(module)
       IN  /\ start_entries = parsed.start
           /\ center_entries = parsed.center
           /\ end_entries = parsed.end
           /\ sections_by_cat = parsed.by_cat
    /\ delivered = << >>
    /\ batch = << >>
    /\ main_menu = << >>
    /\ container = << >>
    /\ bar_position \in BarPositions
    /\ last_click = NoClick
    /\ CommonIdle
    /\ TruncIdle
    /\ DiscoveryIdle

PopupNext ==
    \/ \E application \in PopupApplications :
           /\ Len(delivered) < MaxRenders
           /\ ReceiveBatch(<< application >>)
    \/ \E j \in 1..Len(container) : SectionClick(j)
    \/ \E slot \in Slots : \E i \in 1..Len(CurrentSlots[slot]) :
           CustomClick(slot, i)
    \/ \E j \in 1..Len(container) :
           \E b \in 1..Len(container[j].buttons) :
               \E spawn_ok \in BOOLEAN : AppClick(j, b, spawn_ok)
    \/ \E x \in PointerXs, y \in PointerYs : PointerLeave(x, y)

\* The popup: its batches, its click handlers and its leave handler.
SpecPopup == PopupInit /\ [][PopupNext]_vars

\* No menu: the slots of a module without entries.
MenuIdle ==
    /\ module = MenuModule(<< >>, << >>, << >>)
    /\ start_entries = << >>
    /\ center_entries = << >>
    /\ end_entries = << >>
    /\ sections_by_cat = << >>
    /\ delivered = << >>
    /\ batch = << >>
    /\ main_menu = << >>
    /\ container = << >>
    /\ bar_position = "Top"
    /\ last_click = NoClick

ShowIfInit ==
    /\ CommonInit
    /\ MenuIdle
    /\ TruncIdle
    /\ DiscoveryIdle

ShowIfNext ==
    \/ \E success \in BOOLEAN : ShowIfSend(success)
    \/ ShowIfRecv
    \/ \E button \in Buttons : ButtonPress(button)
    \/ \E direction \in ScrollDirections : ScrollEvent(direction)
    \/ MouseEnter
    \/ MouseExit
    \/ \E string \in TooltipStrings : TooltipUpdate(string)

\* The bindings CommonConfig::install sets up on a module's container.
SpecShowIf == ShowIfInit /\ [][ShowIfNext]_vars

\* The module that owns the bindings is torn down.  install_show_if keeps
\* neither the JoinHandle of the task it spawned nor the SourceId of the
\* receiver it attached, and the callback, which holds its own reference to
\* the container, answers Continue(true): tearing the module down reaches
\* neither the task nor the callback.
Teardown ==
    /\ ~torn_down
    /\ torn_down' = TRUE
    /\ step' = "teardown"
    /\ event' = None
    /\ oneshot' = << >>
    /\ UNCHANGED << common, visible, rx_queue, tooltip_text, script_exit >>
    /\ UNCHANGED << menu_vars, trunc_vars, discovery_vars >>

TeardownNext ==
    \/ ShowIfNext
    \/ Teardown

\* The bindings over the life of their module, its teardown included.
SpecTeardown == ShowIfInit /\ [][TeardownNext]_vars

TruncateInit ==
    /\ TruncInit
    /\ MenuIdle
    /\ CommonIdle
    /\ DiscoveryIdle

TruncateNext == TruncateLabel

\* The label the discovery task computes for one desktop entry.
SpecTruncate == TruncateInit /\ [][TruncateNext]_vars

\* A module with some max_label_length, in a build with or without overflow
\* checks, before its popup exists.
DiscoverInit ==
    /\ DiscoveryInit
    /\ max_label_length \in 0..MaxLength
    /\ overflow_checks \in BOOLEAN
    /\ name = << >>
    /\ label = None
    /\ trunc_pc = "idle"
    /\ MenuIdle
    /\ CommonIdle

DiscoverNext == Discover

\* One run of the discovery task.
SpecDiscover == DiscoverInit /\ [][DiscoverNext]_vars

\* glib_recv!(rx, applications => { .. }): the main context hands the
\* oldest batch the discovery task sent to the popup's callback.
ReceiveUpdate ==
    /\ update_queue # << >>
    /\ Receive(Head(update_queue))
    /\ update_queue' = Tail(update_queue)
    /\ UNCHANGED << files, discovery_pc >>
    /\ UNCHANGED << common_vars, trunc_vars >>

\* The desktop files of the module as a whole: the applications that have
\* a Name and are displayed.
ListedEntries ==
    { e \in DesktopEntries :
        /\ e.parses
        /\ e.type = Some("Application")
        /\ e.name # None
        /\ e.no_display # Some("true") }

\* The menus of the module as a whole: the default menu and a menu with
\* custom entries.
ModuleModules == { DefaultModule, CustomModule }

\* A menu module with a show_if script: the popup is built, install has
\* run on the module's container, the discovery task is spawned over
\* desktop files of different applications.
ModuleInit ==
    /\ MenuInit
    /\ module \in ModuleModules
    /\ CommonInit
    /\ common = ShowIfCommon
    /\ script_exit = "varies"
    /\ TruncIdle
    /\ \E entries \in SeqsWithin(ListedEntries, MaxFiles) :
           /\ \A i, j \in 1..Len(entries) : i # j => entries[i] # entries[j]
           /\ files = Discovered(entries)
    /\ update_queue = << >>
    /\ discovery_pc = "spawned"

\* The polling task, the discovery task, the two receive callbacks of the
\* UI thread and the UI events (a button press on the module's container,
\* the clicks on the popup's buttons, the pointer leaving the popup), in
\* any interleaving.
ModuleNext ==
    \/ \E success \in BOOLEAN : ShowIfSend(success)
    \/ Discover
    \/ ShowIfRecv
    \/ ReceiveUpdate
    \/ \E button \in Buttons : ButtonPress(button)
    \/ \E j \in 1..Len(container) : SectionClick(j)
    \/ \E slot \in Slots : \E i \in 1..Len(CurrentSlots[slot]) :
           CustomClick(slot, i)
    \/ \E j \in 1..Len(container) :
           \E b \in 1..Len(container[j].buttons) :
               \E spawn_ok \in BOOLEAN : AppClick(j, b, spawn_ok)
    \/ \E x \in PointerXs, y \in PointerYs : PointerLeave(x, y)

\* The tasks and callbacks of one module.
SpecModule == ModuleInit /\ [][ModuleNext]_vars

---------------------------------------------------------------------------
(* Vocabulary of the properties of the aggregator, read off the            *)
(* configuration and the slots.                                            *)

Range(seq) == { seq[i] : i \in 1..Len(seq) }

EntriesOf(slot) ==
    CASE slot = "start" -> start_entries
      [] slot = "center" -> center_entries
      [] slot = "end" -> end_entries

\* The positions of the slot that hold a section.
SectionsOf(slot) ==
    { i \in 1..Len(EntriesOf(slot)) : EntriesOf(slot)[i].value.kind = "Xdg" }

\* The applications of the section at position i of the slot, in order.
AppsOf(slot, i) == Values(EntriesOf(slot)[i].value.applications)

\* The section at position i of the slot holds the record.
Holds(slot, i, application) == application \in Range(AppsOf(slot, i))

\* The xdg entries the configuration of the slot declares under the label.
DeclaredAs(slot, l) ==
    { c \in Range(module[slot]) : c.type = "xdg_entry" /\ c.label = l }

\* Some configured section of some slot claims the tag.
Claimed(tag) ==
    \E slot \in Slots : \E c \in Range(module[slot]) :
        c.type = "xdg_entry" /\ tag \in Range(c.categories)

\* The labels the tag routes to.
RoutedLabels(tag) ==
    { c.label : c \in { d \in UNION { Range(module[slot]) : slot \in Slots } :
                          d.type = "xdg_entry" /\ tag \in Range(d.categories) } }

Matched(application) ==
    \E tag \in Range(application.categories) : Claimed(tag)

\* The record is in the "Other" section of the center slot.
InOther(application) ==
    \E i \in SectionsOf("center") :
        /\ center_entries[i].key = OTHER_LABEL
        /\ Holds("center", i, application)

---------------------------------------------------------------------------
\* The center slot holds the "Other" section.
HasOther ==
    \E i \in SectionsOf("center") : center_entries[i].key = OTHER_LABEL

(* C1: overflow exclusivity.  Where the center slot holds the "Other"      *)
(* section, after a batch is processed each record of the batch is in that *)
(* section if and only if none of its tags is claimed by a configured      *)
(* section of any slot.                                                    *)
OverflowExclusivity ==
    HasOther =>
        \A k \in 1..Len(batch) : InOther(batch[k]) <=> ~Matched(batch[k])

(* C2: membership implies match.  Each application a section holds has a   *)
(* tag that this section declares, or matched no section anywhere and sits *)
(* in the center slot's "Other" section.                                   *)
MembershipImpliesMatch ==
    \A slot \in Slots : \A i \in SectionsOf(slot) :
        \A application \in Range(AppsOf(slot, i)) :
            \/ \E c \in DeclaredAs(slot, EntriesOf(slot)[i].key) :
                   Range(c.categories) \cap Range(application.categories) # { }
            \/ /\ ~Matched(application)
               /\ slot = "center"
               /\ EntriesOf(slot)[i].key = OTHER_LABEL

(* C3: fan-out.  After a batch is processed, each record of the batch is   *)
(* present in every section, of every slot, whose label one of the         *)
(* record's tags routes to.                                                *)
FanOut ==
    \A k \in 1..Len(batch) : \A tag \in Range(batch[k].categories) :
        \A slot \in Slots : \A i \in SectionsOf(slot) :
            EntriesOf(slot)[i].key \in RoutedLabels(tag)
                => Holds(slot, i, batch[k])

(* C4: sorted order.  In every section of every slot the labels of the    *)
(* applications, in the order the section keeps them, are lexicographically *)
(* non-decreasing.  Every batch length from 1 on is a step of the model, so *)
(* the states checked include the one after each single insertion.          *)
SortedOrder ==
    \A slot \in Slots : \A i \in SectionsOf(slot) :
        \A j \in 1..(Len(AppsOf(slot, i)) - 1) :
            ~LexLess(AppsOf(slot, i)[j + 1].label, AppsOf(slot, i)[j].label)

\* A section holds three applications of which the one received last stands
\* first and the one received first stands last.
SortedOrderWitness ==
    \E slot \in Slots : \E i \in SectionsOf(slot) :
        /\ Len(AppsOf(slot, i)) = 3
        /\ Len(delivered) = 3
        /\ AppsOf(slot, i)[1] = delivered[3]
        /\ AppsOf(slot, i)[3] = delivered[1]

(* C5: idempotent insertion.  When the record processed last had been      *)
(* processed before, every section that holds it holds exactly one entry   *)
(* with its identifier (file name).                                        *)
IdempotentInsertion ==
    (/\ batch # << >>
     /\ \E k \in 1..(Len(delivered) - 1) :
            delivered[k] = delivered[Len(delivered)])
    => \A slot \in Slots : \A i \in SectionsOf(slot) :
           Holds(slot, i, delivered[Len(delivered)])
           => Cardinality({ j \in 1..Len(AppsOf(slot, i)) :
                  AppsOf(slot, i)[j].file_name
                      = delivered[Len(delivered)].file_name }) = 1

\* The sequence in the order the permutation gives.
Permuted(seq, p) == [i \in 1..Len(seq) |-> seq[p[i]]]

\* The slots of a fresh aggregator after one batch.
FreshRun(applications) ==
    LET parsed == ParseModule(module)
    IN  ClassifyAll([start |-> parsed.start, center |-> parsed.center,
                     end |-> parsed.end],
                    parsed.by_cat, applications, 1)

(* C6: arrival-order independence.  When the records received are pairwise *)
(* different, a fresh aggregator fed the same records as one batch, in any *)
(* permutation, ends with the slots the batches received have produced.    *)
ArrivalOrderIndependence ==
    Cardinality(Range(delivered)) = Len(delivered)
    => \A p \in Permutations(1..Len(delivered)) :
           FreshRun(Permuted(delivered, p)) = CurrentSlots

(* C7: identifier uniqueness.  No section holds two application entries    *)
(* with the same identifier (file name).                                   *)
IdentifierUniqueness ==
    \A slot \in Slots : \A i \in SectionsOf(slot) :
        \A j, k \in 1..Len(AppsOf(slot, i)) :
            AppsOf(slot, i)[j].file_name = AppsOf(slot, i)[k].file_name
                => j = k

\* The label parse_config files an entry of the configuration under.
LabelOf(entry_config) ==
    IF entry_config.type = "xdg_other" THEN OTHER_LABEL
    ELSE entry_config.label

\* The position of the first entry the slot's configuration declares under
\* the label.
FirstDeclared(slot, l) ==
    CHOOSE i \in 1..Len(module[slot]) :
        /\ LabelOf(module[slot][i]) = l
        /\ \A j \in 1..(i - 1) : LabelOf(module[slot][j]) # l

(* C8: slot entry order.  The entries of each slot stand in the order in   *)
(* which the configuration declares their labels, the rendered buttons     *)
(* stand in the order of the entries, and the order is the one             *)
(* parse_config produced.                                                  *)
DeclarationOrder ==
    \A slot \in Slots :
        /\ \A i, j \in 1..Len(EntriesOf(slot)) :
               i < j => FirstDeclared(slot, EntriesOf(slot)[i].key)
                          < FirstDeclared(slot, EntriesOf(slot)[j].key)
        /\ Keys(EntriesOf(slot)) = Keys(ParseModule(module)[slot])
        /\ main_menu # << >> => main_menu = Render(CurrentSlots)

---------------------------------------------------------------------------
(* C9: truncation.  Once the label of a name of N grapheme clusters is     *)
(* computed, it is the first max_label_length - 1 clusters followed by one *)
(* ellipsis when N > max_label_length, and the name itself otherwise.      *)
Truncation ==
    trunc_pc # "name"
    => label = Some(IF Len(name) > max_label_length
                    THEN SubSeq(name, 1, max_label_length - 1)
                             \o << ELLIPSIS >>
                    ELSE name)

(* C10: show_if.  Every result the receive callback applies sets the       *)
(* container's visibility to that result, and the click, scroll, hover and *)
(* tooltip handlers leave the visibility as it is.                         *)
ShowIfSetsVisibility ==
    [][/\ step' = "apply" => visible' = Head(rx_queue)
       /\ step' \in { "press", "scroll", "enter", "exit", "tooltip" }
              => visible' = visible]_vars

\* A result false has just been applied on a module with every option set,
\* and further results wait: the container is hidden.
ShowIfWitness ==
    /\ common = AllCommon
    /\ step = "apply"
    /\ ~visible
    /\ rx_queue # << >>

(* C11: without a show_if script, install shows the container and starts   *)
(* no polling task: in every reachable state the container is visible, no  *)
(* result has been sent and no result has been applied, whatever click,    *)
(* scroll, hover and tooltip events happened.                              *)
NoShowIfStaysShown ==
    common.show_if = None
    => /\ visible
       /\ rx_queue = << >>
       /\ step \notin { "poll", "apply" }

\* A module without show_if whose left click script has just run, after a
\* tooltip update.
NoShowIfWitness ==
    /\ common = HandlersCommon
    /\ step = "press"
    /\ oneshot = Some("left.sh")
    /\ tooltip_text = Some("tip!")
    /\ visible

(* C12: steady states of show_if.  With a script whose every run fails the *)
(* container is hidden in every reachable state, the states before the     *)
(* first result included; with a script whose every run succeeds the       *)
(* container is visible once a result has been applied and is never hidden *)
(* afterwards.                                                             *)
SteadyStates ==
    /\ [](common.show_if # None /\ script_exit = "fails" => ~visible)
    /\ [][script_exit = "succeeds"
              => /\ step' = "apply" => visible'
                 /\ visible => visible']_vars

\* A script that always succeeds: a result has been applied, then a click
\* arrived; the container is visible.
SteadyStatesWitness ==
    /\ script_exit = "succeeds"
    /\ common = AllCommon
    /\ step = "press"
    /\ rx_queue = << TRUE >>
    /\ visible

(* C13: input dispatch.  A press of button 1, 2 or 3 runs as a oneshot the *)
(* script configured for the left, middle or right click and no other; a   *)
(* scroll Up or Down runs the script of on_scroll_up or on_scroll_down; any *)
(* other button or direction, and one without a script, runs nothing; and  *)
(* neither handler changes the visibility, the pending results, the        *)
(* tooltip or the configuration.                                           *)
InputDispatch ==
    [][/\ step' = "press"
           => /\ oneshot' = (CASE event' = 1 -> common.on_click_left
                               [] event' = 2 -> common.on_click_middle
                               [] event' = 3 -> common.on_click_right
                               [] OTHER -> None)
              /\ UNCHANGED << common, visible, rx_queue, tooltip_text >>
       /\ step' = "scroll"
           => /\ oneshot' = (CASE event' = "Up" -> common.on_scroll_up
                               [] event' = "Down" -> common.on_scroll_down
                               [] OTHER -> None)
              /\ UNCHANGED << common, visible, rx_queue, tooltip_text >>]_vars

\* Button 2 was pressed on a module with every option set while a result
\* waited: the middle click script ran.
InputDispatchWitness ==
    /\ common = AllCommon
    /\ step = "press"
    /\ event = 2
    /\ oneshot = Some("middle.sh")
    /\ rx_queue # << >>

(* C14: cancellation.  Once the module that owns a show_if binding is torn *)
(* down, no step runs the script or sends a result, and no step delivers   *)
(* or applies one.                                                         *)
Cancellation ==
    [][torn_down => step' \notin { "poll", "apply" }]_vars

(* C15: no removal.  A record a section holds before a batch is processed  *)
(* is still held by that section, with the same identifier and fields,     *)
(* after the batch has been processed.                                     *)
NoRemoval ==
    [][\A slot \in Slots : \A i \in SectionsOf(slot) :
           \A application \in Range(AppsOf(slot, i)) :
               application \in Range(AppsOf(slot, i))']_vars

\* The file passes the discovery filter: it parses, is an Application, has a
\* Name and is not marked NoDisplay=true.
Eligible(desktop) ==
    /\ desktop.parses
    /\ desktop.type = Some("Application")
    /\ desktop.name # None
    /\ desktop.no_display # Some("true")

(* C16: discovery filtering and isolation.  Once the discovery task has    *)
(* run, it has sent one batch, and the batch holds exactly one record for  *)
(* each discovered file that passes the filter, in discovery order, under  *)
(* that file's name and with its categories; no other file contributes a   *)
(* record or keeps the batch from being sent.                              *)
DiscoveryFiltering ==
    discovery_pc # "spawned"
    => /\ discovery_pc = "sent"
       /\ Len(update_queue) = 1
       /\ LET eligible == SelectSeq(files, Eligible)
              apps == update_queue[1]
          IN  /\ Len(apps) = Len(eligible)
              /\ \A i \in 1..Len(apps) :
                     /\ apps[i].file_name = eligible[i].file_name
                     /\ apps[i].label # << >>
                     /\ apps[i].categories # << >>

\* The number of sections the three slots hold.
SectionCount ==
    Cardinality(SectionsOf("start")) + Cardinality(SectionsOf("center"))
        + Cardinality(SectionsOf("end"))

\* The main menu holds one button per entry of each slot, in the order of
\* the slot.
MainMenuRendered ==
    /\ main_menu # << >>
    /\ \A k \in 1..3 :
           LET entries == EntriesOf(<< "start", "center", "end" >>[k])
           IN  /\ Len(main_menu[k]) = Len(entries)
               /\ \A i \in 1..Len(entries) :
                      main_menu[k][i] = entries[i].value.label

(* C17: full re-render.  After every batch the main menu holds exactly one *)
(* button per slot entry, in the order of the slot, and the popup          *)
(* container holds exactly one sub-menu per section, with one button per   *)
(* application the section holds now, and nothing else.                    *)
FullRerender ==
    main_menu # << >>
    => /\ MainMenuRendered
       /\ Len(container) = SectionCount
       /\ \A slot \in Slots : \A i \in SectionsOf(slot) :
              \E j \in 1..Len(container) :
                  /\ container[j].slot = slot
                  /\ container[j].label = EntriesOf(slot)[i].value.label
                  /\ Len(container[j].buttons) = Len(AppsOf(slot, i))
                  /\ \A b \in 1..Len(AppsOf(slot, i)) :
                         container[j].buttons[b].file_name
                             = AppsOf(slot, i)[b].file_name

\* The sub-menus a render put into the popup container, with their
\* buttons: the tree without the visibility the popup's click and leave
\* handlers switch.
Rendered(children) ==
    [j \in 1..Len(children) |->
        [slot |-> children[j].slot, label |-> children[j].label,
         buttons |-> children[j].buttons]]

\* The slot structures and the tree rendered from them.
Structures ==
    << start_entries, center_entries, end_entries, sections_by_cat,
       main_menu, Rendered(container), delivered, batch >>

(* C18: single-threaded mutation.  In every interleaving of the polling    *)
(* task, the discovery task and the UI, a step that changes the            *)
(* container's visibility is the show_if callback applying the oldest      *)
(* pending result; a step that changes the slot structures is the popup's  *)
(* callback consuming the oldest pending batch, classifying all of it and  *)
(* rendering the result in that same step; and a step that sends a result  *)
(* or a batch appends it to its channel and changes neither, nor any       *)
(* widget of the popup.  The clicks on the popup and the pointer leaving   *)
(* it are UI events: they switch the visibility of sub-menus and touch     *)
(* neither the slot structures nor the tree.                               *)
SingleThreaded ==
    [][/\ visible' # visible
           => /\ rx_queue # << >>
              /\ visible' = Head(rx_queue)
              /\ rx_queue' = Tail(rx_queue)
       /\ Structures' # Structures
           => /\ update_queue # << >>
              /\ update_queue' = Tail(update_queue)
              /\ delivered' = delivered \o Head(update_queue)
              /\ MainMenuRendered'
       /\ Len(rx_queue') > Len(rx_queue)
           => /\ \E success \in BOOLEAN :
                     rx_queue' = Append(rx_queue, success)
              /\ UNCHANGED << visible, Structures, container >>
       /\ Len(rx_queue') < Len(rx_queue)
           => /\ rx_queue' = Tail(rx_queue)
              /\ visible' = Head(rx_queue)
       /\ Len(update_queue') > Len(update_queue)
           => /\ SubSeq(update_queue', 1, Len(update_queue)) = update_queue
              /\ UNCHANGED << visible, Structures, container >>]_vars

\* The batch of two applications has been received and rendered while two
\* results, true then false, waited; the first of them has been applied.
SingleThreadedWitness ==
    /\ discovery_pc = "sent"
    /\ update_queue = << >>
    /\ Len(delivered) = 2
    /\ MainMenuRendered
    /\ step = "apply"
    /\ visible
    /\ rx_queue = << FALSE >>

(* C19: bounded result channel.  The results the polling task has sent and *)
(* the UI thread has not consumed stay within a fixed capacity: within any *)
(* capacity below MaxQueue, the number of pending results at which the     *)
(* model stops following the channel.                                      *)
BoundedChannel == Len(rx_queue) < MaxQueue

\* The position of the last entry the slot's configuration declares under
\* the label.
LastDeclared(slot, l) ==
    CHOOSE i \in 1..Len(module[slot]) :
        /\ LabelOf(module[slot][i]) = l
        /\ \A j \in (i + 1)..Len(module[slot]) : LabelOf(module[slot][j]) # l

\* The kind of entry and the icon an entry of the configuration declares.
DeclaredKind(entry_config) ==
    IF entry_config.type = "custom" THEN "Custom" ELSE "Xdg"

DeclaredIcon(entry_config) ==
    IF entry_config.type = "xdg_other" THEN Some("applications-other")
    ELSE entry_config.icon

\* Each label of the slot has a single entry.
SingleEntry(slot) ==
    \A i, j \in 1..Len(EntriesOf(slot)) :
        EntriesOf(slot)[i].key = EntriesOf(slot)[j].key => i = j

(* C20, as stated: duplicate labels at parse time.  Each label of a slot   *)
(* has a single entry, and the entry has the kind and the icon of the      *)
(* first entry the configuration declares under the label.                 *)
DuplicateKeepsFirst ==
    \A slot \in Slots :
        /\ SingleEntry(slot)
        /\ \A i \in 1..Len(EntriesOf(slot)) :
               LET entry == EntriesOf(slot)[i]
                   declared == module[slot][FirstDeclared(slot, entry.key)]
               IN  /\ entry.value.kind = DeclaredKind(declared)
                   /\ entry.value.icon = DeclaredIcon(declared)

(* C20, amended: each label of a slot has a single entry, and the entry    *)
(* has the kind and the icon of the last entry the configuration declares  *)
(* under the label.                                                        *)
DuplicateKeepsLast ==
    \A slot \in Slots :
        /\ SingleEntry(slot)
        /\ \A i \in 1..Len(EntriesOf(slot)) :
               LET entry == EntriesOf(slot)[i]
                   declared == module[slot][LastDeclared(slot, entry.key)]
               IN  /\ entry.value.label = entry.key
                   /\ entry.value.kind = DeclaredKind(declared)
                   /\ entry.value.icon = DeclaredIcon(declared)

\* The center slot declares "Games" twice, with the icons "first" and
\* "second": its one entry "Games" has the icon "second", also after a
\* batch.
DuplicateWitness ==
    /\ module = DuplicateModule
    /\ Keys(center_entries) = << LblGames, OTHER_LABEL >>
    /\ center_entries[1].value.icon = Some("second")
    /\ delivered # << >>

\* What a batch must leave alone in an entry: its key, kind, label, icon and
\* action.
Shape(pair) ==
    [key |-> pair.key, kind |-> pair.value.kind, label |-> pair.value.label,
     icon |-> pair.value.icon, on_click |-> pair.value.on_click]

\* The entries of the slot without their application maps, in order.
ShapeOf(slot) ==
    [i \in 1..Len(EntriesOf(slot)) |-> Shape(EntriesOf(slot)[i])]

(* C21: frame of batch processing.  A batch changes nothing but the        *)
(* application maps of Xdg sections: the category index, the entries of    *)
(* each slot with their order, labels, icons and kinds, and the custom      *)
(* entries are after every batch what they were before it, hence what the  *)
(* three parse_config calls left, and a custom entry holds no application  *)
(* in any reachable state.                                                 *)
BatchFrame ==
    /\ [](\A slot \in Slots : \A i \in 1..Len(EntriesOf(slot)) :
              EntriesOf(slot)[i].value.kind = "Custom"
                  => EntriesOf(slot)[i].value.applications = << >>)
    /\ [][/\ sections_by_cat' = sections_by_cat
           /\ module' = module
           /\ \A slot \in Slots : ShapeOf(slot)' = ShapeOf(slot)]_vars

\* The start slot's custom entry "Graphics" shares its label with a section
\* of the center slot to which the tag Graphics routes: a record with that
\* tag has been processed, the section holds it and the custom entry holds
\* nothing.
BatchFrameWitness ==
    /\ module = CustomModule
    /\ start_entries[1].value.kind = "Custom"
    /\ start_entries[1].key = LblGraphics
    /\ start_entries[1].value.applications = << >>
    /\ \E k \in 1..Len(delivered) : "Graphics" \in Range(delivered[k].categories)
    /\ \E i \in SectionsOf("center") :
           /\ center_entries[i].key = LblGraphics
           /\ AppsOf("center", i) # << >>

(* C22: application selection.  A click on an application button of a      *)
(* sub-menu on screen passes the file name of one of that sub-menu's       *)
(* records to one gtk-launch, hides the sub-menu's box and sends one       *)
(* ClosePopup, whether or not the launch could be spawned; it changes      *)
(* neither the slots, the category index, the main menu nor any other      *)
(* sub-menu.                                                               *)
ApplicationSelection ==
    [][last_click'.handler = "app"
          => LET j == last_click'.target
             IN  /\ Displayed(container[j])
                 /\ \E b \in 1..Len(container[j].buttons) :
                        last_click'.launched
                            = Some(container[j].buttons[b].file_name)
                 /\ last_click'.close_popup = 1
                 /\ last_click'.script = None
                 /\ ~container'[j].box_visible
                 /\ container'[j].buttons = container[j].buttons
                 /\ Len(container') = Len(container)
                 /\ \A k \in 1..Len(container) :
                        k # j => container'[k] = container[k]
                 /\ UNCHANGED << start_entries, center_entries, end_entries,
                                 sections_by_cat, main_menu, delivered >>]_vars

\* gtk-launch could not be spawned for foo.desktop, clicked in a sub-menu of
\* a menu with a height: ClosePopup was sent and the box is hidden inside
\* its scrolled window.
ApplicationSelectionWitness ==
    /\ last_click.handler = "app"
    /\ ~last_click.spawn_ok
    /\ last_click.launched = Some("foo.desktop")
    /\ last_click.close_popup = 1
    /\ module.height # None
    /\ ~container[last_click.target].box_visible
    /\ container[last_click.target].visible

\* The children of the popup container that are visible.
VisibleChildren == { j \in 1..Len(container) : container[j].visible }

(* C23: single open sub-menu.  In every reachable state at most one child  *)
(* of the popup container after main_menu is visible; right after a        *)
(* section click the visible one is the clicked section's, and right after *)
(* a custom click none is.                                                 *)
SingleOpenSubMenu ==
    /\ Cardinality(VisibleChildren) <= 1
    /\ last_click.handler = "section"
           => VisibleChildren = { last_click.target }
    /\ last_click.handler = "custom" => VisibleChildren = { }

\* After a second render the container holds six sub-menus for three
\* sections; the button of the fifth has just been clicked and an older
\* sub-menu was launched from before.
SingleOpenWitness ==
    /\ module = WithHeight(FanOutModule)
    /\ Len(container) = 6
    /\ last_click.handler = "section"
    /\ last_click.target = 5
    /\ container[5].visible
    /\ \E k \in 1..3 : ~container[k].box_visible

(* C24: section reopen.  Right after a click on a section's button the     *)
(* section's application list is on screen: the child of the container and *)
(* the box of buttons in it are both visible, with and without a height.   *)
SectionReopen ==
    last_click.handler = "section"
        => Displayed(container[last_click.target])

\* The configuration of the center slot declares the catch-all entry.
DeclaresOther == \E c \in Range(module.center) : c.type = "xdg_other"

(* C25: no record is lost.  Where the center slot's configuration declares *)
(* the catch-all entry, after a batch is processed every record of the     *)
(* batch is held by at least one section of some slot.                     *)
NoRecordLost ==
    DeclaresOther
        => \A k \in 1..Len(batch) :
               \E slot \in Slots : \E i \in SectionsOf(slot) :
                   Holds(slot, i, batch[k])

(* C26: truncation bound.  For every max_label_length, 0 and 1 included,   *)
(* and every name, the label is computed (the subtraction                  *)
(* max_label_length - 1 is not evaluated at 0) and has at most             *)
(* max_label_length grapheme clusters.                                     *)
TruncationBound ==
    trunc_pc # "name"
        => /\ trunc_pc = "done"
           /\ ~(Len(name) > max_label_length /\ max_label_length = 0)
           /\ label # None
           /\ Len(label[1]) <= max_label_length

===========================================================================
